---- MODULE Spec2Model ----
(***************************************************************************)
(* MXS Serial Link: the MXS stream decoder and encoder, the serial worker  *)
(* thread, the foreground connection loop and the data thread.             *)
(*                                                                         *)
(* Bytes are naturals 0..255.  Rust slices are 0-based; a Rust index i is  *)
(* element i + 1 of the TLA+ sequence, and the Rust range a..b is          *)
(* SubSeq(s, a + 1, b).  Option<usize>::None is the value None.            *)
(***************************************************************************)
EXTENDS Integers, Sequences, FiniteSets, TLC

\* ------------------------------------------------------------------------
\*  mxs_shared.rs : protocol constants and packet types
\* ------------------------------------------------------------------------

MARKER == <<170, 85>>

MARKER_LEN == Len(MARKER)

TYPE_LEN == 1

SIZE_LEN == 1

MAX_DATA_LEN == (2 ^ (SIZE_LEN * 8)) - 1

MIN_PACKET_SIZE == MARKER_LEN + TYPE_LEN + SIZE_LEN

MAX_PACKET_SIZE == MARKER_LEN + TYPE_LEN + SIZE_LEN + MAX_DATA_LEN

MxsPacketType_Start == 1

MxsPacketType_End == 2

MxsPacketType_Heartbeat == 3

MxsPacketType_Data == 4

MxsPacketType_Error == 5

MxsPacketType ==
    { MxsPacketType_Start, MxsPacketType_End, MxsPacketType_Heartbeat,
      MxsPacketType_Data, MxsPacketType_Error }

\* Option::None, and the Err(()) of MxsPacketType::try_from
None == -1

\* impl TryFrom<u8> for MxsPacketType
MxsPacketType_try_from(value) ==
    IF value \in MxsPacketType THEN value ELSE None

\* ------------------------------------------------------------------------
\*  mxs_encoder.rs
\* ------------------------------------------------------------------------

\* data.len().to_le_bytes()[..SIZE_LEN] : the low byte of the length
LenLowByte(n) == n % (2 ^ (SIZE_LEN * 8))

\* MxsEncoder::create_data_package ; the assert bounds data.len()
create_data_package(p_type, data) ==
    MARKER \o <<p_type>> \o <<LenLowByte(Len(data))>> \o data

\* ------------------------------------------------------------------------
\*  mxs_decoder.rs
\* ------------------------------------------------------------------------

\* self.data[self.cursor..].windows(MARKER_LEN).position(|w| w == MARKER),
\* returned as the absolute offset found_rel + cursor (None when absent)
MarkerPosition(data, cursor) ==
    LET hits == { i \in cursor .. (Len(data) - MARKER_LEN) :
                    SubSeq(data, i + 1, i + MARKER_LEN) = MARKER }
    IN  IF hits = {} THEN None
        ELSE CHOOSE i \in hits : \A j \in hits : i <= j

\* if self.skip_pos.is_none() { self.skip_pos = Some(v) }
SetSkipIfNone(skip_pos, v) == IF skip_pos = None THEN v ELSE skip_pos

\* the skip position recorded when the buffer holds no marker at all
NoMarkerSkipPos(len) == len - (MARKER_LEN - 1)

\* ShortHeaderSkipPos that gives up the first byte of the unfinished header
ShortHeaderSkipPos_PastByte(start_pos) == start_pos + 1

\* the skip position recorded when the header after a marker is incomplete
ShortHeaderSkipPos(start_pos) == start_pos

\* the offset the cursor and the skip position take after a false marker
FalseMarkerSkipPos(start_pos) == start_pos + MARKER_LEN

\* DataStart with the size byte taken for the first payload byte
DataStart_NoSizeLen(size_pos) == size_pos

\* let data_start = size_pos + SIZE_LEN
DataStart(size_pos) == size_pos + SIZE_LEN

NoPacket == [packet_type |-> None, data |-> <<>>]

\* MxsDecoder::extract_packet on the decoder state (cursor, skip_pos):
\* the Option<MxsPacket> (some, packet) and the decoder state it leaves
extract_packet(data, cursor, skip_pos) ==
    IF cursor + MARKER_LEN > Len(data)
    THEN [some |-> FALSE, packet |-> NoPacket,
          cursor |-> cursor, skip_pos |-> skip_pos]
    ELSE
    LET start_pos == MarkerPosition(data, cursor) IN
    IF start_pos = None
    THEN [some |-> FALSE, packet |-> NoPacket, cursor |-> cursor,
          skip_pos |-> SetSkipIfNone(skip_pos, NoMarkerSkipPos(Len(data)))]
    ELSE IF start_pos + MIN_PACKET_SIZE > Len(data)
    THEN [some |-> FALSE, packet |-> NoPacket, cursor |-> cursor,
          skip_pos |-> SetSkipIfNone(skip_pos, ShortHeaderSkipPos(start_pos))]
    ELSE
    LET type_pos    == start_pos + MARKER_LEN
        packet_type == MxsPacketType_try_from(data[type_pos + 1])
    IN
    IF packet_type = None
    THEN [some |-> FALSE, packet |-> NoPacket,
          cursor |-> FalseMarkerSkipPos(start_pos),
          skip_pos |-> SetSkipIfNone(skip_pos, FalseMarkerSkipPos(start_pos))]
    ELSE
    LET size_pos   == type_pos + TYPE_LEN
        data_len   == data[size_pos + 1]
        data_start == DataStart(size_pos)
        data_end   == data_start + data_len
    IN
    IF data_end > Len(data)
    THEN [some |-> FALSE, packet |-> NoPacket, cursor |-> start_pos,
          skip_pos |-> SetSkipIfNone(skip_pos, start_pos)]
    ELSE [some |-> TRUE,
          packet |-> [packet_type |-> packet_type,
                      data |-> SubSeq(data, data_start + 1, data_end)],
          cursor |-> data_end,
          skip_pos |-> SetSkipIfNone(skip_pos, start_pos)]

\* while let Some(packet) = decoder.extract_packet() { packets.push(packet) }
\* : the loop ends at the first None, whatever made extract_packet return it
RECURSIVE ExtractLoop(_, _, _, _)
ExtractLoop(data, cursor, skip_pos, packets) ==
    LET r == extract_packet(data, cursor, skip_pos) IN
    IF r.some
    THEN ExtractLoop(data, r.cursor, r.skip_pos, Append(packets, r.packet))
    ELSE [cursor |-> r.cursor, skip_pos |-> r.skip_pos, packets |-> packets]

\* SkippedData as &data[1..first_pos] : the first skipped byte is left out
SkippedData_FromOne(data, first_pos) == SubSeq(data, 2, first_pos)

\* let skipped_data = &data[..first_pos]
SkippedData(data, first_pos) == SubSeq(data, 1, first_pos)

\* TrimIndex as the decoder's cursor whether or not a packet was found
TrimIndex_AlwaysCursor(packets, first_pos, cursor) == cursor

\* let trim_index = if packets.is_empty() { first_pos } else { decoder.cursor }
TrimIndex(packets, first_pos, cursor) ==
    IF packets = <<>> THEN first_pos ELSE cursor

\* MxsDecoder::filter_buffer
filter_buffer(data) ==
    LET decoder   == ExtractLoop(data, 0, None, <<>>)
        first_pos == IF decoder.skip_pos = None THEN 0 ELSE decoder.skip_pos
    IN  [skipped_data |-> SkippedData(data, first_pos),
         trim_index   |-> TrimIndex(decoder.packets, first_pos, decoder.cursor),
         packets      |-> decoder.packets]

\* buffer.drain(..trim_index)
Drain(buffer, trim_index) == SubSeq(buffer, trim_index + 1, Len(buffer))

\* ------------------------------------------------------------------------
\*  data.rs
\* ------------------------------------------------------------------------

\* size_of::<Data>() for struct Data(i16, i16, i16)
DataSize == 6

\* i16_from_le_bytes reading the two bytes in big-endian order
i16_from_be_bytes(lo, hi) ==
    LET u == hi + 256 * lo IN IF u >= 32768 THEN u - 65536 ELSE u

\* i16::from_le_bytes([lo, hi])
i16_from_le_bytes(lo, hi) ==
    LET u == lo + 256 * hi IN IF u >= 32768 THEN u - 65536 ELSE u

\* a conversion that takes the first size_of::<Data>() bytes of a longer slice
Data_try_from_AtLeast(buf) ==
    IF Len(buf) < DataSize THEN [ok |-> FALSE, rec |-> <<>>]
    ELSE [ok |-> TRUE,
          rec |-> << i16_from_le_bytes(buf[1], buf[2]),
                     i16_from_le_bytes(buf[3], buf[4]),
                     i16_from_le_bytes(buf[5], buf[6]) >>]

\* impl TryFrom<&[u8]> for Data : ok is FALSE for Err(DataError)
Data_try_from(buf) ==
    IF Len(buf) # DataSize THEN [ok |-> FALSE, rec |-> <<>>]
    ELSE [ok |-> TRUE,
          rec |-> << i16_from_le_bytes(buf[1], buf[2]),
                     i16_from_le_bytes(buf[3], buf[4]),
                     i16_from_le_bytes(buf[5], buf[6]) >>]

\* ------------------------------------------------------------------------
\*  main.rs : messages and text
\* ------------------------------------------------------------------------

\* Text is a sequence of code points.  A string literal of the program is
\* one token, a negative number no code point equals.
ReplacementChar == 65533

TxtReceivedEnd == -2

TxtReceivedOther(p) == -10 - p

TxtWriteError == -20

TxtReadError == -21

TxtConvertError == -22

TxtThreadStarted == -30

TxtThreadDone == -31

TxtThreadExiting == -32

TxtDataProcessed == -40

\* String::from_utf8_lossy for byte strings without UTF-8 lead bytes
\* (0xC2..0xF4): an ASCII byte is its own code point, and every other byte
\* is an invalid sequence of its own, replaced by U+FFFD
from_utf8_lossy(bytes) ==
    [i \in 1 .. Len(bytes) |->
        IF bytes[i] < 128 THEN bytes[i] ELSE ReplacementChar]

\* enum ThreadMsg
ThreadMsg_Started == [tag |-> "Started", text |-> <<>>, rec |-> <<>>]

ThreadMsg_Done == [tag |-> "Done", text |-> <<>>, rec |-> <<>>]

ThreadMsg_Exiting == [tag |-> "Exiting", text |-> <<>>, rec |-> <<>>]

ThreadMsg_Error(e) == [tag |-> "Error", text |-> e, rec |-> <<>>]

ThreadMsg_Print(s) == [tag |-> "Print", text |-> s, rec |-> <<>>]

ThreadMsg_Data(d) == [tag |-> "Data", text |-> <<>>, rec |-> d]

\* the message the worker sends for one decoded packet (match on packet_type)
PacketMsg(packet) ==
    IF packet.packet_type = MxsPacketType_Data
    THEN LET d == Data_try_from(packet.data) IN
         IF d.ok THEN ThreadMsg_Data(d.rec)
         ELSE ThreadMsg_Error(<<TxtConvertError>>)
    ELSE IF packet.packet_type = MxsPacketType_End
    THEN ThreadMsg_Print(<<TxtReceivedEnd>>)
    ELSE ThreadMsg_Print(<<TxtReceivedOther(packet.packet_type)>>)

\* the messages of one filter-mode iteration sent newest packet first
FilterMsgs_NewestFirst(res) ==
    (IF res.skipped_data # <<>>
     THEN <<ThreadMsg_Print(from_utf8_lossy(res.skipped_data))>>
     ELSE <<>>)
    \o [i \in 1 .. Len(res.packets) |->
          PacketMsg(res.packets[Len(res.packets) + 1 - i])]

\* the messages of one filter-mode iteration, in send order
FilterMsgs(res) ==
    (IF res.skipped_data # <<>>
     THEN <<ThreadMsg_Print(from_utf8_lossy(res.skipped_data))>>
     ELSE <<>>)
    \o [i \in 1 .. Len(res.packets) |-> PacketMsg(res.packets[i])]

\* a direct mode that still runs the decoder
DirectMsgs_Filtered(buf) == FilterMsgs(filter_buffer(buf))

\* the message of one direct-mode iteration: the whole buffer as text
DirectMsgs(buf) == <<ThreadMsg_Print(from_utf8_lossy(buf))>>

\* Data::process : format!("MXS Data: {:?}", &self), never an Err
Data_process(d) == <<TxtDataProcessed>> \o d

\* ------------------------------------------------------------------------
\*  stdio_helper.rs : read_stdin_input, the line editor
\* ------------------------------------------------------------------------

\* key press events: the key code, the character of KeyCode::Char, and
\* whether the modifiers are exactly CONTROL
KeyEnter == [code |-> "Enter", ch |-> 0, ctrl |-> FALSE]

KeyBackspace == [code |-> "Backspace", ch |-> 0, ctrl |-> FALSE]

KeyUp == [code |-> "Up", ch |-> 0, ctrl |-> FALSE]

KeyDown == [code |-> "Down", ch |-> 0, ctrl |-> FALSE]

KeyEsc == [code |-> "Esc", ch |-> 0, ctrl |-> FALSE]

\* a key the match has no arm for (Tab, F1, ...)
KeyOther == [code |-> "Other", ch |-> 0, ctrl |-> FALSE]

KeyChar(c) == [code |-> "Char", ch |-> c, ctrl |-> FALSE]

KeyCtrl(c) == [code |-> "Char", ch |-> c, ctrl |-> TRUE]

\* 'c', 'j', 'u' and the newline that Enter pushes
Char_c == 99

Char_j == 106

Char_u == 117

NewLine == 10

\* history.get(index) is Some(..): index is 0-based, front of the deque first
HistoryHas(history, index) == index >= 0 /\ index < Len(history)

HistoryGet(history, index) == history[index + 1]

\* Enter: history.front() != Some(input) decides the push_front
EnterPushes(history, input) == history = <<>> \/ Head(history) # input

\* Up: the index passed to history.get
UpIndex(scroll_pos) == scroll_pos + 1

\* Down, scroll_pos > 1: the index passed to history.get
DownIndex(scroll_pos) == scroll_pos - 1

\* the editor: std_input of the caller and the statics HISTORY, SCROLL_POS;
\* exit is set when Ctrl-C calls terminal_exit!(), which ends the process
Editor(input, history, scroll_pos) ==
    [input |-> input, history |-> history, scroll_pos |-> scroll_pos,
     exit |-> FALSE]

\* the match on (key_event.code, key_event.modifiers) for one key press
key_event(ed, key) ==
    IF key.code = "Char" /\ key.ch = Char_c /\ key.ctrl
    THEN [ed EXCEPT !.exit = TRUE]
    ELSE IF key.code = "Enter" \/ (key.code = "Char" /\ key.ch = Char_j /\ key.ctrl)
    THEN [ed EXCEPT !.history = IF EnterPushes(ed.history, ed.input)
                                 THEN <<ed.input>> \o ed.history
                                 ELSE ed.history,
                    !.scroll_pos = 0,
                    !.input = Append(ed.input, NewLine)]
    ELSE IF key.code = "Backspace"
    THEN [ed EXCEPT !.input = IF ed.input = <<>> THEN <<>>
                               ELSE SubSeq(ed.input, 1, Len(ed.input) - 1)]
    ELSE IF key.code = "Up"
    THEN IF HistoryHas(ed.history, UpIndex(ed.scroll_pos))
         THEN [ed EXCEPT !.input = HistoryGet(ed.history, UpIndex(ed.scroll_pos)),
                         !.scroll_pos = ed.scroll_pos + 1]
         ELSE ed
    ELSE IF key.code = "Down"
    THEN IF ed.scroll_pos <= 1
         THEN [ed EXCEPT !.input = <<>>, !.scroll_pos = 0]
         ELSE IF HistoryHas(ed.history, DownIndex(ed.scroll_pos))
         THEN [ed EXCEPT !.input = HistoryGet(ed.history, DownIndex(ed.scroll_pos)),
                         !.scroll_pos = ed.scroll_pos - 1]
         ELSE ed
    ELSE IF key.code = "Esc"
    THEN [ed EXCEPT !.input = <<>>, !.scroll_pos = 0]
    ELSE IF key.code = "Char"
    THEN [ed EXCEPT !.input = Append(ed.input, key.ch)]
    ELSE ed

\* while event::poll(0)? { event::read()? ... } over the pending events
RECURSIVE read_stdin_input(_, _)
read_stdin_input(ed, keys) ==
    IF keys = <<>> \/ ed.exit THEN ed
    ELSE read_stdin_input(key_event(ed, Head(keys)), Tail(keys))

\* std_input.ends_with('\n')
EndsWithNewLine(input) == input # <<>> /\ input[Len(input)] = NewLine

\* ------------------------------------------------------------------------
\*  stdio_helper.rs : the terminal
\* ------------------------------------------------------------------------

\* The terminal as the process finds it: the scrolling region is the whole
\* screen, the cursor is shown, and stdin has the attributes icanon and
\* echo, kept in `before` as the values to come back to.  raw_saved: the
\* attributes crossterm saves in enable_raw_mode, which is never called.
Terminal(icanon, echo) ==
    [region |-> "full", cursor |-> "shown", icanon |-> icanon, echo |-> echo,
     before |-> [icanon |-> icanon, echo |-> echo], raw_saved |-> FALSE]

\* stdout_init on Linux: c_lflag &= !(ICANON | ECHO) and tcsetattr, then
\* cursor::Hide and the scrolling region "\x1b[0;{rows - TERM_PAD}r".  The
\* attributes read by Termios::from_fd are not kept anywhere.
stdout_init(t) ==
    [t EXCEPT !.icanon = FALSE, !.echo = FALSE,
              !.cursor = "hidden", !.region = "set"]

\* crossterm::terminal::disable_raw_mode : puts back the attributes saved by
\* enable_raw_mode, and does nothing when none were saved
disable_raw_mode(t) ==
    IF t.raw_saved
    THEN [t EXCEPT !.icanon = t.before.icanon, !.echo = t.before.echo,
                   !.raw_saved = FALSE]
    ELSE t

\* stdout_de_init : disable_raw_mode, "\x1b[r", style reset, cursor::Show
stdout_de_init(t) ==
    [disable_raw_mode(t) EXCEPT !.region = "full", !.cursor = "shown"]

\* println!("\nExiting...\n") of terminal_exit!
TxtProcessExiting == -60

\* ------------------------------------------------------------------------
\*  main.rs : choice of the port
\* ------------------------------------------------------------------------

\* A port name is a sequence of ASCII code points.
\* char::is_numeric, on ASCII: the digits '0' .. '9'
is_numeric(c) == c \in 48 .. 57

\* char::to_digit(10) of a digit
to_digit(c) == c - 48

\* name.chars().rev().take_while(|c| c.is_numeric()) : the digits at the end
\* of the name, the last one first
RECURSIVE TrailingDigits(_)
TrailingDigits(name) ==
    IF name = <<>> \/ ~ is_numeric(name[Len(name)]) THEN <<>>
    ELSE <<name[Len(name)]>> \o TrailingDigits(SubSeq(name, 1, Len(name) - 1))

\* .enumerate().for_each : key += if i == 0 { n } else { i as u16 * 10 * n },
\* from the digit at index i on (index 0 is the first of digits); the u16
\* sum cannot overflow for fewer than 39 digits
RECURSIVE KeySum(_, _)
KeySum(digits, i) ==
    IF digits = <<>> THEN 0
    ELSE LET n == to_digit(Head(digits)) IN
         ((IF i = 0 THEN n ELSE i * 10 * n) + KeySum(Tail(digits), i + 1))
         % (2 ^ 16)

\* generate_key_from_suffix
generate_key_from_suffix(name) ==
    IF name = <<>> THEN 0
    ELSE IF is_numeric(name[Len(name)]) THEN KeySum(TrailingDigits(name), 0)
    ELSE 0

\* name_len taken from the longest name of the list
name_len_Longest(serial_port) ==
    CHOOSE l \in { Len(serial_port[i]) : i \in 1 .. Len(serial_port) } :
        \A i \in 1 .. Len(serial_port) : Len(serial_port[i]) <= l

\* sorted_ports.sort_by_key(len); name_len = sorted_ports[0].port_name.len()
name_len(serial_port) ==
    CHOOSE l \in { Len(serial_port[i]) : i \in 1 .. Len(serial_port) } :
        \A i \in 1 .. Len(serial_port) : l <= Len(serial_port[i])

\* Iterator::max_by_key(generate_key_from_suffix) over a non-empty list: the
\* last of the elements with the maximal key
max_by_key(list) ==
    LET i == CHOOSE i \in 1 .. Len(list) :
                 \A j \in 1 .. Len(list) :
                     /\ generate_key_from_suffix(list[j])
                          <= generate_key_from_suffix(list[i])
                     /\ generate_key_from_suffix(list[j])
                          = generate_key_from_suffix(list[i]) => j <= i
    IN  list[i]

NoPort == [some |-> FALSE, name |-> <<>>]

\* auto_select_port : Option<String>
auto_select_port(serial_port) ==
    IF serial_port = <<>> THEN NoPort
    ELSE LET len == name_len(serial_port) IN
         [some |-> TRUE,
          name |-> max_by_key(SelectSeq(serial_port, LAMBDA p : Len(p) = len))]

\* the match of find_port on one list of ports: the name given if listed,
\* the automatic choice if no name was given
find_in(port, serial_port) ==
    IF port # <<>>
    THEN IF \E i \in 1 .. Len(serial_port) : serial_port[i] = port
         THEN [some |-> TRUE, name |-> port]
         ELSE NoPort
    ELSE auto_select_port(serial_port)

\* const ATTEMPTS: u8 = 5
ATTEMPTS == 5

\* ------------------------------------------------------------------------
\*  State
\* ------------------------------------------------------------------------

VARIABLES
    input,        \* decoder harness: the input drawn for this run
    dbuf,         \* decoder harness: the caller's buffer
    dstage,       \* decoder harness: position of the caller
    r1,           \* decoder harness: result of the first filter_buffer call
    r2,           \* decoder harness: result of the call after the drain
    wire,         \* bytes the device has still to deliver to the port
    fed,          \* history: bytes the worker has read from the port so far
    buffer,       \* spawn_serial_thread: the rolling buffer
    wpc,          \* spawn_serial_thread: position of the worker thread
    main_q,       \* the (main_thread_tx, main_thread_rx) channel
    sent,         \* history: every message the worker has sent, in order
    text_q,       \* the (serial_thread_tx, serial_thread_rx) channel
    port_out,     \* what each serial_port.write put on the port, in order
    pk_log,       \* history: packets returned by filter_buffer, in order
    skipped_log,  \* history: concatenation of the skipped_data returned
    single,       \* history: no read so far delivered more than one byte
    direct,       \* DIRECT_MODE
    fpc,          \* handle_connection: position of the foreground loop
    screen,       \* text written to stdout by handle_connection
    data_q,       \* the (data_thread_tx, data_thread_rx) channel
    dtpc,         \* spawn_data_thread: position of the data thread
    keyboard,     \* key press events the user has still to type
    typed,        \* history: key press events read_stdin_input has read
    std_input,    \* handle_connection: std_input, the line being edited
    HISTORY,      \* read_stdin_input: static HISTORY, most recent first
    SCROLL_POS,   \* read_stdin_input: static SCROLL_POS
    line_log,     \* history: lines sent on the text channel, in order
    iter,         \* history: what the last iteration of 'main_rx did
    mainpc,       \* main: position of the 'main loop
    ports,        \* find_port: the list available_ports returned last
    input_port,   \* main: input_port, empty when no port was given
    port_name,    \* main: port_name, the result of find_port
    attempt,      \* connect_to_port: the loop variable
    opens,        \* history: open_native calls of this connect_to_port call
    sleeps,       \* history: 500 ms sleeps of this connect_to_port call
    term,         \* the terminal: scrolling region, cursor, stdin attributes
    exit_code     \* the code the process exited with, None while it runs

dvars == <<input, dbuf, dstage, r1, r2>>

wvars == <<wire, fed, buffer, wpc, main_q, sent, text_q, port_out,
           pk_log, skipped_log, single, direct>>

evars == <<keyboard, typed, std_input, HISTORY, SCROLL_POS, line_log>>

bvars == <<ports, input_port, port_name, attempt, opens, sleeps>>

tvars == <<term, exit_code>>

fvars == <<fpc, screen, data_q, dtpc, keyboard, typed, std_input, HISTORY,
           SCROLL_POS, line_log, iter, mainpc, bvars, tvars>>

vars == <<input, dbuf, dstage, r1, r2,
          wire, fed, buffer, wpc, main_q, sent, text_q, port_out,
          pk_log, skipped_log, single, direct,
          fpc, screen, data_q, dtpc, keyboard, typed, std_input, HISTORY,
          SCROLL_POS, line_log, iter, mainpc,
          ports, input_port, port_name, attempt, opens, sleeps,
          term, exit_code>>

\* the process has not called std::process::exit
Running == exit_code = None

\* ------------------------------------------------------------------------
\*  Bounds and input sets
\* ------------------------------------------------------------------------

\* longest raw buffer handed to the decoder harness
MaxBuf == 6

\* longest payload of the enumerated frames
MaxPayload == 4

\* longest run of bytes between a false marker and the frame after it
MaxJunk == 2

\* longest arbitrary byte stream fed to the worker
MaxStream == 5

\* 0: no packet type, length 0.  1: Start, length 1.  65: 'A'.
\* 85, 170: the marker bytes
Bytes == {0, 1, 65, 85, 170}

PayloadBytes == {1, 85, 170}

SeqsUpTo(S, n) == UNION { [1 .. k -> S] : k \in 0 .. n }

Payloads == SeqsUpTo(PayloadBytes, MaxPayload)

\* little-endian encodings of 1, 2, 3, 21930 (the marker itself) and -21931
FieldBytes == { <<1, 0>>, <<2, 0>>, <<3, 0>>, <<170, 85>>, <<85, 170>> }

DataPayloads == { a \o b \o c : a \in FieldBytes, b \in FieldBytes, c \in FieldBytes }

\* the frame of scenario S2 : Data (1, 2, 3)
FrameS2 == create_data_package(MxsPacketType_Data, <<1, 0, 2, 0, 3, 0>>)

\* text without marker bytes: "ABC", "XYZ", "Hi\n", "A", "X"
PlainTexts == { <<65, 66, 67>>, <<88, 89, 90>>, <<72, 105, 10>>, <<65>>, <<88>> }

\* ------------------------------------------------------------------------
\*  Decoder harness: one caller that encodes or loads a buffer, calls
\*  filter_buffer, drains trim_index bytes and calls filter_buffer again
\* ------------------------------------------------------------------------

NoResult == [skipped_data |-> <<>>, trim_index |-> 0, packets |-> <<>>]

\* a frame to be built by the encoder
FrameInputs ==
    { [kind |-> "frame", p_type |-> t, payload |-> p, bytes |-> <<>>] :
        t \in MxsPacketType, p \in Payloads }

\* an arbitrary buffer
RawInputs ==
    { [kind |-> "raw", p_type |-> 0, payload |-> <<>>, bytes |-> b] :
        b \in SeqsUpTo(Bytes, MaxBuf) }

\* a false marker (type byte 0 or 9), junk, then one Data frame of 6 bytes
FalseMarkerInputs ==
    { [kind |-> "false_marker", p_type |-> MxsPacketType_Data, payload |-> p,
       bytes |-> MARKER \o <<bad>> \o junk
                 \o create_data_package(MxsPacketType_Data, p)] :
        bad \in {0, 9}, junk \in SeqsUpTo({0, 65, 170}, MaxJunk),
        p \in { <<1, 0, 2, 0, 3, 0>>, <<170, 85, 1, 0, 85, 170>> } }

WorkerIdle ==
    /\ wire = <<>> /\ fed = <<>> /\ buffer = <<>> /\ wpc = "start"
    /\ main_q = <<>> /\ sent = <<>> /\ text_q = <<>> /\ port_out = <<>>
    /\ pk_log = <<>> /\ skipped_log = <<>> /\ single = TRUE
    /\ direct = FALSE

\* no iteration of 'main_rx has run yet
NoIteration == [tag |-> "None", wrote |-> FALSE, painted |-> FALSE]

EditorIdle ==
    /\ typed = <<>> /\ std_input = <<>> /\ HISTORY = <<>> /\ SCROLL_POS = 0
    /\ line_log = <<>>

\* main has a connection; find_port and connect_to_port are not looked at
BootIdle ==
    /\ ports = <<>> /\ input_port = <<>> /\ port_name = <<>>
    /\ attempt = 0 /\ opens = 0 /\ sleeps = 0

\* stdout_init has run on a terminal in canonical mode with echo
TerminalReady ==
    /\ term = stdout_init(Terminal(TRUE, TRUE))
    /\ exit_code = None

ForegroundIdle ==
    /\ fpc = "run" /\ screen = <<>> /\ data_q = <<>> /\ dtpc = "run"
    /\ keyboard = <<>>
    /\ EditorIdle
    /\ iter = NoIteration
    /\ mainpc = "handle_connection"
    /\ BootIdle
    /\ TerminalReady

HarnessIdle ==
    /\ input = [kind |-> "none", p_type |-> 0, payload |-> <<>>, bytes |-> <<>>]
    /\ dbuf = <<>> /\ dstage = "idle" /\ r1 = NoResult /\ r2 = NoResult

InitDec ==
    /\ input \in FrameInputs \cup RawInputs \cup FalseMarkerInputs
    /\ dbuf = <<>>
    /\ dstage = "input"
    /\ r1 = NoResult
    /\ r2 = NoResult
    /\ WorkerIdle
    /\ ForegroundIdle

\* the caller builds the frame with MxsEncoder::create_data_package
DecEncode ==
    /\ dstage = "input"
    /\ input.kind = "frame"
    /\ dbuf' = create_data_package(input.p_type, input.payload)
    /\ dstage' = "ready"
    /\ UNCHANGED <<input, r1, r2, wvars, fvars>>

\* the caller's buffer receives the bytes as they are
DecLoad ==
    /\ dstage = "input"
    /\ input.kind # "frame"
    /\ dbuf' = input.bytes
    /\ dstage' = "ready"
    /\ UNCHANGED <<input, r1, r2, wvars, fvars>>

DecFilter ==
    /\ dstage = "ready"
    /\ r1' = filter_buffer(dbuf)
    /\ dstage' = "filtered"
    /\ UNCHANGED <<input, dbuf, r2, wvars, fvars>>

DecDrain ==
    /\ dstage = "filtered"
    /\ dbuf' = Drain(dbuf, r1.trim_index)
    /\ dstage' = "drained"
    /\ UNCHANGED <<input, r1, r2, wvars, fvars>>

DecRefilter ==
    /\ dstage = "drained"
    /\ r2' = filter_buffer(dbuf)
    /\ dstage' = "refiltered"
    /\ UNCHANGED <<input, dbuf, r1, wvars, fvars>>

NextDec == DecEncode \/ DecLoad \/ DecFilter \/ DecDrain \/ DecRefilter

SpecDec == InitDec /\ [][NextDec]_vars

\* ------------------------------------------------------------------------
\*  spawn_serial_thread : the serial worker
\* ------------------------------------------------------------------------

READ_BUFFER_SIZE == 2000

Min(a, b) == IF a < b THEN a ELSE b

\* main_thread_rx lives until handle_connection returns
ReceiverAlive == fpc = "run"

\* main_thread_tx.send(m).unwrap() for each m of msgs, in order, then go to
\* next_pc; a send to a dropped receiver is an Err and unwrap panics
SendAll(msgs, next_pc) ==
    IF msgs = <<>> \/ ReceiverAlive
    THEN /\ main_q' = main_q \o msgs
         /\ sent' = sent \o msgs
         /\ wpc' = next_pc
    ELSE /\ wpc' = "panicked"
         /\ UNCHANGED <<main_q, sent>>

\* main_thread_tx.send(ThreadMsg::Started).unwrap()
WStart ==
    /\ Running
    /\ wpc = "start"
    /\ SendAll(<<ThreadMsg_Started>>, "poll")
    /\ UNCHANGED <<wire, fed, buffer, text_q, port_out, pk_log, skipped_log,
                   single, direct, dvars, fvars>>

\* local_thread_rx.try_recv() is an Err: no line is waiting
WPollNone ==
    /\ Running
    /\ wpc = "poll"
    /\ text_q = <<>>
    /\ wpc' = "read"
    /\ UNCHANGED <<wire, fed, buffer, main_q, sent, text_q, port_out, pk_log,
                   skipped_log, single, direct, dvars, fvars>>

\* try_recv() yields a line and serial_port.write returns Ok(n): the port
\* took the first n bytes of the line, and the count is not looked at
WWriteOk ==
    /\ Running
    /\ wpc = "poll"
    /\ text_q # <<>>
    /\ text_q' = Tail(text_q)
    /\ \E n \in 1 .. Len(Head(text_q)) :
          port_out' = Append(port_out, SubSeq(Head(text_q), 1, n))
    /\ wpc' = "read"
    /\ UNCHANGED <<wire, fed, buffer, main_q, sent, pk_log, skipped_log,
                   single, direct, dvars, fvars>>

\* try_recv() yields a line and serial_port.write fails: Error, break
WWriteErr ==
    /\ Running
    /\ wpc = "poll"
    /\ text_q # <<>>
    /\ text_q' = Tail(text_q)
    /\ SendAll(<<ThreadMsg_Error(<<TxtWriteError>>)>>, "exit")
    /\ UNCHANGED <<wire, fed, buffer, port_out, pk_log, skipped_log,
                   single, direct, dvars, fvars>>

\* bound on the messages sent before a direct-mode read of zero bytes, each
\* of which sends one more (empty) text
MaxSent == 3

\* serial_port.read returns Ok(n), n = 0 included (end of file on the
\* descriptor): extend the buffer, then direct mode or filter_buffer, the
\* sends, and buffer.drain(..trim_index)
WReadOk ==
    /\ Running
    /\ wpc = "read"
    /\ \E n \in 0 .. Min(Len(wire), READ_BUFFER_SIZE) :
        LET chunk == SubSeq(wire, 1, n)
            buf1  == buffer \o chunk
            res   == filter_buffer(buf1)
        IN  /\ (n = 0 /\ direct) => Len(sent) < MaxSent
            /\ wire' = SubSeq(wire, n + 1, Len(wire))
            /\ fed' = fed \o chunk
            /\ single' = (single /\ n <= 1)
            /\ IF direct
               THEN /\ SendAll(DirectMsgs(buf1), "poll")
                    /\ buffer' = IF wpc' = "panicked" THEN buf1 ELSE <<>>
                    /\ UNCHANGED <<pk_log, skipped_log>>
               ELSE /\ SendAll(FilterMsgs(res), "poll")
                    /\ buffer' = IF wpc' = "panicked" THEN buf1
                                 ELSE Drain(buf1, res.trim_index)
                    /\ pk_log' = pk_log \o res.packets
                    /\ skipped_log' = skipped_log \o res.skipped_data
    /\ UNCHANGED <<text_q, port_out, direct, dvars, fvars>>

\* serial_port.read returns Err(TimedOut): ignored
WReadTimeout ==
    /\ Running
    /\ wpc = "read"
    /\ wpc' = "poll"
    /\ UNCHANGED <<wire, fed, buffer, main_q, sent, text_q, port_out, pk_log,
                   skipped_log, single, direct, dvars, fvars>>

\* serial_port.read returns another Err: Error, break
WReadErr ==
    /\ Running
    /\ wpc = "read"
    /\ SendAll(<<ThreadMsg_Error(<<TxtReadError>>)>>, "exit")
    /\ UNCHANGED <<wire, fed, buffer, text_q, port_out, pk_log, skipped_log,
                   single, direct, dvars, fvars>>

\* the thread ends after the loop without a word
WExit_Silent ==
    /\ Running
    /\ wpc = "exit"
    /\ wpc' = "done"
    /\ UNCHANGED <<wire, fed, buffer, main_q, sent, text_q, port_out, pk_log,
                   skipped_log, single, direct, dvars, fvars>>

\* after the loop: main_thread_tx.send(ThreadMsg::Exiting).unwrap()
WExit ==
    /\ Running
    /\ wpc = "exit"
    /\ SendAll(<<ThreadMsg_Exiting>>, "done")
    /\ UNCHANGED <<wire, fed, buffer, text_q, port_out, pk_log, skipped_log,
                   single, direct, dvars, fvars>>

\* the worker thread has ended, by returning or by a panic
WorkerEnded == wpc \in {"done", "panicked"}

\* the worker is between two iterations of 'serial_rw
BetweenIterations == wpc \in {"poll", "read"}

\* every byte of the device: read so far, then still to come
Stream == fed \o wire

\* ------------------------------------------------------------------------
\*  Feed harness: the worker alone, fed a canned byte stream through the
\*  port in reads of any size, its messages left in the channel
\* ------------------------------------------------------------------------

Frames == { create_data_package(t, p) : t \in MxsPacketType, p \in Payloads }

\* a frame whose payload is itself a complete frame
NestedFrames ==
    { create_data_package(t, create_data_package(u, <<>>)) :
        t \in MxsPacketType, u \in {MxsPacketType_Start, MxsPacketType_Data} }

DataFrames == { create_data_package(MxsPacketType_Data, p) : p \in DataPayloads }

Interleaved == { t1 \o FrameS2 \o t2 : t1 \in PlainTexts, t2 \in PlainTexts }

\* a Start frame followed, in this order, by "X" and an End frame, by a
\* false marker (type byte 0) and one more byte, or by "XYZ" alone
GapStreams ==
    { create_data_package(MxsPacketType_Start, <<>>) \o <<88>>
        \o create_data_package(MxsPacketType_End, <<>>),
      create_data_package(MxsPacketType_Start, <<>>) \o MARKER \o <<0, 0>>,
      create_data_package(MxsPacketType_Start, <<>>) \o <<88, 89, 90>> }

FeedStreams ==
    SeqsUpTo(Bytes, MaxStream) \cup Frames \cup NestedFrames \cup DataFrames
    \cup Interleaved \cup PlainTexts \cup GapStreams

InitFeed ==
    /\ wire \in FeedStreams
    /\ fed = <<>> /\ buffer = <<>> /\ wpc = "start"
    /\ main_q = <<>> /\ sent = <<>> /\ text_q = <<>> /\ port_out = <<>>
    /\ pk_log = <<>> /\ skipped_log = <<>> /\ single = TRUE
    /\ direct = FALSE
    /\ HarnessIdle
    /\ ForegroundIdle

NextFeed ==
    WStart \/ WPollNone \/ WReadOk \/ WReadTimeout \/ WReadErr \/ WExit

SpecFeed == InitFeed /\ [][NextFeed]_vars

\* ------------------------------------------------------------------------
\*  Mixed harness: the worker alone, in filter mode or in direct mode, fed
\*  Data frames of the wrong length next to the frame of S2
\* ------------------------------------------------------------------------

\* payloads of 0, 1, 5 and 7 bytes, and one of 2 bytes that is the marker
BadPayloads ==
    { <<>>, <<1>>, <<170, 85>>, <<1, 0, 2, 0, 3>>, <<1, 0, 2, 0, 3, 0, 4>> }

BadDataFrame(p) == create_data_package(MxsPacketType_Data, p)

MixStreams ==
    { BadDataFrame(p) \o FrameS2 : p \in BadPayloads }
    \cup { FrameS2 \o BadDataFrame(p) : p \in BadPayloads }

\* the frame of S2, "A" + a Start frame + "B", a Data frame of one byte
DirectMixStreams ==
    { FrameS2,
      <<65>> \o create_data_package(MxsPacketType_Start, <<>>) \o <<66>>,
      BadDataFrame(<<1>>) }

InitMix ==
    /\ direct \in BOOLEAN
    /\ wire \in (IF direct THEN DirectMixStreams ELSE MixStreams)
    /\ fed = <<>> /\ buffer = <<>> /\ wpc = "start"
    /\ main_q = <<>> /\ sent = <<>> /\ text_q = <<>> /\ port_out = <<>>
    /\ pk_log = <<>> /\ skipped_log = <<>> /\ single = TRUE
    /\ HarnessIdle
    /\ ForegroundIdle

SpecMix == InitMix /\ [][NextFeed]_vars

\* ------------------------------------------------------------------------
\*  handle_connection : the foreground loop, and spawn_data_thread
\* ------------------------------------------------------------------------

\* the prefix of the echo of a committed line: "\n" and the green ">>:"
TxtEcho == -50

\* what the match on the received message appends to std_output
Notice(tag, text) ==
    CASE tag = "Print"   -> text
      [] tag = "Done"    -> <<TxtThreadDone>>
      [] tag = "Started" -> <<TxtThreadStarted>>
      [] tag = "Exiting" -> <<TxtThreadExiting>>
      [] OTHER           -> <<>>

\* the iteration reaches print_input_bar: the Error arm ends in `continue`,
\* the Exiting arm in `break`, and a failed `?` returns
ReachesBar_Always(tag, returns) == ~ returns

ReachesBar(tag, returns) == tag \notin {"Error", "Exiting"} /\ ~ returns

\* One iteration of 'main_rx.  recv_timeout yields the head of the channel,
\* or times out on an empty channel.  n: the key events pending when
\* read_stdin_input polls.  io: "stdin_err" when event::poll or event::read
\* fails after these events, "stdout_err" when the write to stdout fails
\* (both return from handle_connection through `?`).
FgIteration ==
    /\ Running
    /\ mainpc = "handle_connection"
    /\ fpc = "run"
    /\ \E n \in 0 .. Len(keyboard), io \in {"ok", "stdin_err", "stdout_err"} :
        LET got  == main_q # <<>>
            tag  == IF got THEN Head(main_q).tag ELSE "Timeout"
            text == IF got THEN Head(main_q).text ELSE <<>>
            std_output1 == Notice(tag, text)
            keys == SubSeq(keyboard, 1, n)
            ed   == read_stdin_input(Editor(std_input, HISTORY, SCROLL_POS), keys)
            commit == io # "stdin_err" /\ EndsWithNewLine(ed.input)
            std_output2 == IF commit THEN std_output1 \o <<TxtEcho>> \o ed.input
                           ELSE std_output1
            send_ok == ~ WorkerEnded
            returns == io # "ok" \/ (commit /\ ~ send_ok)
        IN  /\ main_q' = IF got THEN Tail(main_q) ELSE main_q
            /\ data_q' = IF tag = "Data" THEN Append(data_q, Head(main_q).rec)
                         ELSE data_q
            /\ IF tag = "Error"
               THEN \* eprintln, write_all of the empty std_output, continue
                    /\ n = 0
                    /\ io # "stdin_err"
                    /\ fpc' = IF io = "ok" THEN "run" ELSE "err"
                    /\ iter' = [tag |-> tag, wrote |-> FALSE,
                                painted |-> ReachesBar(tag, io # "ok")]
                    /\ UNCHANGED <<screen, text_q, evars, tvars>>
               ELSE IF tag = "Exiting"
               THEN \* notice, write_all, break, Ok(())
                    /\ n = 0
                    /\ io # "stdin_err"
                    /\ fpc' = IF io = "ok" THEN "ok" ELSE "err"
                    /\ screen' = IF io = "ok" THEN screen \o std_output1 ELSE screen
                    /\ iter' = [tag |-> tag, wrote |-> io = "ok",
                                painted |-> ReachesBar(tag, io # "ok")]
                    /\ UNCHANGED <<text_q, evars, tvars>>
               ELSE IF ed.exit
               THEN \* Ctrl-C, the last of the keys read: terminal_exit!()
                    \* inside read_stdin_input, nothing of std_output written
                    /\ n > 0
                    /\ keys[n] = KeyCtrl(Char_c)
                    /\ io = "ok"
                    /\ keyboard' = SubSeq(keyboard, n + 1, Len(keyboard))
                    /\ typed' = typed \o keys
                    /\ HISTORY' = ed.history
                    /\ SCROLL_POS' = ed.scroll_pos
                    /\ std_input' = ed.input
                    /\ term' = stdout_de_init(term)
                    /\ screen' = Append(screen, TxtProcessExiting)
                    /\ exit_code' = 0
                    /\ fpc' = "exit"
                    /\ iter' = [tag |-> tag, wrote |-> TRUE, painted |-> FALSE]
                    /\ UNCHANGED <<text_q, line_log>>
               ELSE /\ UNCHANGED tvars
                    /\ keyboard' = SubSeq(keyboard, n + 1, Len(keyboard))
                    /\ typed' = typed \o keys
                    /\ HISTORY' = ed.history
                    /\ SCROLL_POS' = ed.scroll_pos
                    /\ text_q' = IF commit /\ send_ok THEN Append(text_q, ed.input)
                                 ELSE text_q
                    /\ line_log' = IF commit /\ send_ok THEN Append(line_log, ed.input)
                                   ELSE line_log
                    /\ std_input' = IF returns \/ commit THEN <<>> ELSE ed.input
                    /\ fpc' = IF returns THEN "err" ELSE "run"
                    /\ screen' = IF returns THEN screen ELSE screen \o std_output2
                    /\ iter' = [tag |-> tag,
                                wrote |-> ~ returns /\ std_output2 # <<>>,
                                painted |-> ReachesBar(tag, returns)]
    /\ UNCHANGED <<wire, fed, buffer, wpc, sent, port_out, pk_log, skipped_log,
                   single, direct, dtpc, mainpc, dvars, bvars>>

\* main: handle_connection has returned, with Ok(()) or with an Err that is
\* printed; either way the 'main loop goes round to available_ports again
MainContinue ==
    /\ Running
    /\ mainpc = "handle_connection"
    /\ fpc \in {"ok", "err"}
    /\ mainpc' = "available_ports"
    /\ UNCHANGED <<wvars, dvars, fpc, screen, data_q, dtpc, evars, iter,
                   bvars, tvars>>

\* data_thread_rx.recv() is Ok(data): process it and send the result
DtProcess ==
    /\ Running
    /\ dtpc = "run"
    /\ data_q # <<>>
    /\ data_q' = Tail(data_q)
    /\ IF ReceiverAlive
       THEN /\ main_q' = Append(main_q, ThreadMsg_Print(Data_process(Head(data_q))))
            /\ dtpc' = "run"
       ELSE /\ dtpc' = "panicked"
            /\ UNCHANGED main_q
    /\ UNCHANGED <<wire, fed, buffer, wpc, sent, text_q, port_out, pk_log,
                   skipped_log, single, direct, fpc, screen, evars, iter,
                   mainpc, dvars, bvars, tvars>>

\* data_thread_rx.recv() is an Err (the sender is dropped, the channel is
\* empty): the `if let` does nothing and the loop goes round again
DtSpin ==
    /\ Running
    /\ dtpc = "run"
    /\ data_q = <<>>
    /\ fpc # "run"
    /\ UNCHANGED vars

\* ------------------------------------------------------------------------
\*  One connection: worker, foreground loop and data thread
\* ------------------------------------------------------------------------

\* three frames back to back: the Data frame of S2, a Data frame without
\* payload and an End frame
BackToBack ==
    FrameS2 \o create_data_package(MxsPacketType_Data, <<>>)
            \o create_data_package(MxsPacketType_End, <<>>)

\* "Hi\n", the frame of S2, "A" + the frame + "X", a silent device, and the
\* three frames back to back
ConnStreams ==
    { <<72, 105, 10>>, FrameS2, <<65>> \o FrameS2 \o <<88>>, <<>>, BackToBack }

\* direct mode is run on the short text only
DirectStreams == { <<72, 105, 10>> }

\* the user types nothing, or "1", Enter, "2", Enter
ConnKeys ==
    { <<>>, <<KeyChar(49), KeyEnter, KeyChar(50), KeyEnter>> }

InitConn ==
    /\ direct \in BOOLEAN
    /\ wire \in (IF direct THEN DirectStreams ELSE ConnStreams)
    /\ fed = <<>> /\ buffer = <<>> /\ wpc = "start"
    /\ main_q = <<>> /\ sent = <<>> /\ text_q = <<>> /\ port_out = <<>>
    /\ pk_log = <<>> /\ skipped_log = <<>> /\ single = TRUE
    /\ HarnessIdle
    /\ fpc = "run" /\ screen = <<>> /\ data_q = <<>> /\ dtpc = "run"
    /\ keyboard \in ConnKeys
    /\ EditorIdle
    /\ iter = NoIteration
    /\ mainpc = "handle_connection"
    /\ BootIdle
    /\ TerminalReady

WorkerNext ==
    \/ WStart \/ WPollNone \/ WWriteOk \/ WWriteErr
    \/ WReadOk \/ WReadTimeout \/ WReadErr \/ WExit

DataThreadNext == DtProcess \/ DtSpin

NextConn == WorkerNext \/ FgIteration \/ DataThreadNext \/ MainContinue

SpecConn == InitConn /\ [][NextConn]_vars

\* ------------------------------------------------------------------------
\*  Editor harness: the foreground loop alone, the user typing a script of
\*  key presses that read_stdin_input drains in calls of any size
\* ------------------------------------------------------------------------

\* longest script of arbitrary key presses
MaxKeys == 4

\* Enter, Backspace, Up, Down, Esc, Ctrl-U, 'a', 'b'
EditKeys ==
    { KeyEnter, KeyBackspace, KeyUp, KeyDown, KeyEsc, KeyCtrl(Char_u),
      KeyChar(97), KeyChar(98) }

\* "a", "b", "a" committed, then Up, Up, Down (and one more Up or Down);
\* three Enter, then Up, Up, Down; Ctrl-J for Enter; a key without an arm
RecallScripts ==
    { <<KeyChar(97), KeyEnter, KeyChar(98), KeyEnter, KeyChar(97), KeyEnter,
        KeyUp, KeyUp, KeyDown>> \o tail : tail \in { <<>>, <<KeyUp>>, <<KeyDown>> } }
    \cup { <<KeyEnter, KeyEnter, KeyEnter, KeyUp, KeyUp, KeyDown>>,
            <<KeyChar(97), KeyCtrl(Char_j), KeyUp>>,
            <<KeyChar(97), KeyOther, KeyEnter>> }

KeyScripts == SeqsUpTo(EditKeys, MaxKeys) \cup RecallScripts

InitKeys ==
    /\ keyboard \in KeyScripts
    /\ fpc = "run" /\ screen = <<>> /\ data_q = <<>> /\ dtpc = "run"
    /\ EditorIdle
    /\ iter = NoIteration
    /\ mainpc = "handle_connection"
    /\ BootIdle
    /\ TerminalReady
    /\ WorkerIdle
    /\ HarnessIdle

NextKeys == FgIteration

SpecKeys == InitKeys /\ [][NextKeys]_vars

\* every thread that can take a step is scheduled, and bytes the device has
\* sent are delivered to a worker that keeps reading
SpecConnFair ==
    /\ InitConn
    /\ [][NextConn]_vars
    /\ WF_vars(WorkerNext)
    /\ SF_vars(WReadOk)
    /\ WF_vars(FgIteration)
    /\ WF_vars(DataThreadNext)

\* ------------------------------------------------------------------------
\*  main : the 'main loop up to the connection (find_port, connect_to_port)
\* ------------------------------------------------------------------------

COM1 == <<67, 79, 77, 49>>

COM3 == <<67, 79, 77, 51>>

COM9 == <<67, 79, 77, 57>>

COM10 == <<67, 79, 77, 49, 48>>

\* COM1, COM9, COM10, then "COMx", a name without digits at its end, and
\* "A12", "A21", two shorter names
PortNames ==
    { COM1, COM9, COM10, <<67, 79, 77, 120>>, <<65, 49, 50>>, <<65, 50, 49>> }

\* longest list of arbitrary port names
MaxPorts == 3

\* COM1, COM3, COM9 and COM10 in every order
ComLists ==
    { l \in [1 .. 4 -> {COM1, COM3, COM9, COM10}] :
        \A i, j \in 1 .. 4 : i # j => l[i] # l[j] }

\* what serialport::available_ports() can return as Ok
PortLists == SeqsUpTo(PortNames, MaxPorts) \cup ComLists

\* 'main: the lists are printed and find_port is called
MainListPorts ==
    /\ Running
    /\ mainpc = "available_ports"
    /\ mainpc' = "find_port"
    /\ UNCHANGED <<dvars, wvars, fpc, screen, data_q, dtpc, evars, iter,
                   bvars, tvars>>

\* One iteration of the loop of find_port.  listed: available_ports() is
\* Ok(r), or an Err that `?` returns and 'main answers with `continue`.
\* flush: io::stdout().flush()? after the "." of a round without a port.
FindPort ==
    /\ Running
    /\ mainpc = "find_port"
    /\ \E listed \in BOOLEAN, r \in PortLists, flush \in BOOLEAN :
        LET found == find_in(input_port, r) IN
        IF ~ listed
        THEN /\ r = <<>> /\ flush
             /\ mainpc' = "available_ports"
             /\ UNCHANGED bvars
        ELSE /\ ports' = r
             /\ IF found.some
                THEN \* Ok(name): connect_to_port(&port_name) is entered
                     /\ flush
                     /\ port_name' = found.name
                     /\ mainpc' = "connect_to_port"
                     /\ attempt' = 0 /\ opens' = 0 /\ sleeps' = 0
                ELSE \* ".", flush, sleep(1 s), next round
                     /\ mainpc' = IF flush THEN "find_port" ELSE "available_ports"
                     /\ UNCHANGED <<port_name, attempt, opens, sleeps>>
             /\ UNCHANGED input_port
    /\ UNCHANGED <<dvars, wvars, fpc, screen, data_q, dtpc, evars, iter, tvars>>

\* One iteration of `for attempt in 0..=ATTEMPTS` of connect_to_port.
\* r: open_native() is Ok or Err; "flush_err": the flush()? before the loop
\* fails.  Ok returns the port: 'main sets input_port and enters
\* handle_connection with new channels and threads.  Err on the last value
\* of attempt returns the error; any other Err is printed and followed by
\* sleep(500 ms).
ConnectAttempt ==
    /\ Running
    /\ mainpc = "connect_to_port"
    /\ \E r \in {"ok", "err", "flush_err"} :
        /\ r = "flush_err" => opens = 0
        /\ opens' = IF r = "flush_err" THEN opens ELSE opens + 1
        /\ IF r = "ok"
           THEN /\ input_port' = port_name
                /\ mainpc' = "handle_connection"
                /\ fpc' = "run" /\ iter' = NoIteration /\ std_input' = <<>>
                /\ main_q' = <<>> /\ text_q' = <<>> /\ data_q' = <<>>
                /\ wpc' = "start" /\ dtpc' = "run" /\ buffer' = <<>>
                /\ sent' = <<>>
                /\ UNCHANGED <<attempt, sleeps>>
           ELSE /\ IF r = "flush_err" \/ attempt = ATTEMPTS
                   THEN /\ mainpc' = "available_ports"
                        /\ UNCHANGED <<attempt, sleeps>>
                   ELSE /\ attempt' = attempt + 1
                        /\ sleeps' = sleeps + 1
                        /\ UNCHANGED mainpc
                /\ UNCHANGED <<input_port, fpc, iter, std_input, main_q, text_q,
                               data_q, wpc, dtpc, buffer, sent>>
    /\ UNCHANGED <<dvars, wire, fed, port_out, pk_log, skipped_log, single,
                   direct, screen, keyboard, typed, HISTORY, SCROLL_POS,
                   line_log, ports, port_name, tvars>>

\* the program starts with or without a port name on its command line
InitBoot ==
    /\ mainpc = "available_ports"
    /\ input_port \in { <<>>, COM9 }
    /\ ports = <<>> /\ port_name = <<>>
    /\ attempt = 0 /\ opens = 0 /\ sleeps = 0
    /\ TerminalReady
    /\ fpc = "run" /\ screen = <<>> /\ data_q = <<>> /\ dtpc = "run"
    /\ keyboard = <<>>
    /\ EditorIdle
    /\ iter = NoIteration
    /\ WorkerIdle
    /\ HarnessIdle

NextBoot == MainListPorts \/ FindPort \/ ConnectAttempt

SpecBoot == InitBoot /\ [][NextBoot]_vars

\* ------------------------------------------------------------------------
\*  Teardown harness: the foreground loop alone on a terminal found in any
\*  mode, the user typing keys, Ctrl-C among them, and SIGINT at any time
\* ------------------------------------------------------------------------

\* the ctrlc handler set up by ctrl_c_init! : terminal_exit!()
SigInt ==
    /\ Running
    /\ term' = stdout_de_init(term)
    /\ screen' = Append(screen, TxtProcessExiting)
    /\ exit_code' = 0
    /\ UNCHANGED <<dvars, wvars, fpc, data_q, dtpc, evars, iter, mainpc, bvars>>

\* longest script of keys typed before the end
MaxTermKeys == 3

\* 'a', Enter, Ctrl-C
TermKeys == { KeyChar(97), KeyEnter, KeyCtrl(Char_c) }

InitTerm ==
    /\ \E icanon \in BOOLEAN, echo \in BOOLEAN :
          term = stdout_init(Terminal(icanon, echo))
    /\ exit_code = None
    /\ keyboard \in SeqsUpTo(TermKeys, MaxTermKeys)
    /\ fpc = "run" /\ screen = <<>> /\ data_q = <<>> /\ dtpc = "run"
    /\ EditorIdle
    /\ iter = NoIteration
    /\ mainpc = "handle_connection"
    /\ BootIdle
    /\ WorkerIdle
    /\ HarnessIdle

NextTerm == FgIteration \/ SigInt

SpecTerm == InitTerm /\ [][NextTerm]_vars

\* the buffer the first filter_buffer call of the harness ran on
OriginalBuffer ==
    IF input.kind = "frame"
    THEN create_data_package(input.p_type, input.payload)
    ELSE input.bytes

\* s holds the marker pattern somewhere
HasMarker(s) == MarkerPosition(s, 0) # None

\* ------------------------------------------------------------------------
\*  C1  Round trip.  For every valid packet type T and payload P, the bytes
\*  the encoder produces for (T, P), passed alone to filter_buffer, yield
\*  exactly one packet of type T with payload P, an empty skipped_data and
\*  trim_index = |P| + 4.
\* ------------------------------------------------------------------------
C1_RoundTrip ==
    (input.kind = "frame" /\ dstage \in {"filtered", "drained", "refiltered"})
    => /\ Len(r1.packets) = 1
       /\ r1.packets[1].packet_type = input.p_type
       /\ r1.packets[1].data = input.payload
       /\ r1.skipped_data = <<>>
       /\ r1.trim_index = Len(input.payload) + 4

\* a frame whose payload is as long as the bound allows and holds the marker
C1_Witness ==
    /\ input.kind = "frame"
    /\ dstage = "filtered"
    /\ Len(input.payload) = MaxPayload
    /\ HasMarker(input.payload)
    /\ Len(r1.packets) = 1

\* ------------------------------------------------------------------------
\*  C3  Resync past false markers.  A buffer that starts with a false
\*  marker, goes on with non-frame bytes and ends with one complete Data
\*  frame of 6 payload bytes yields, in a single filter_buffer call, exactly
\*  one Data packet.
\* ------------------------------------------------------------------------
C3_ResyncOnePacket ==
    (input.kind = "false_marker" /\ dstage = "filtered")
    => /\ Len(r1.packets) = 1
       /\ r1.packets[1].packet_type = MxsPacketType_Data
       /\ r1.packets[1].data = input.payload

\* ------------------------------------------------------------------------
\*  C4  Idempotence of the tail.  For any buffer B, the packets of
\*  filter_buffer(B) followed by the packets of filter_buffer on B without
\*  its first trim_index bytes are exactly the packets of one run on B.
\* ------------------------------------------------------------------------
C4_TailIdempotent ==
    dstage = "refiltered"
    => r1.packets \o r2.packets = filter_buffer(OriginalBuffer).packets

\* ------------------------------------------------------------------------
\*  Claims about the worker fed through the port (SpecFeed)
\* ------------------------------------------------------------------------

\* s is exactly one valid frame
IsFrameStream(s) ==
    /\ Len(s) >= MIN_PACKET_SIZE
    /\ SubSeq(s, 1, MARKER_LEN) = MARKER
    /\ s[3] \in MxsPacketType
    /\ Len(s) = MIN_PACKET_SIZE + s[4]

FramePayload(s) == SubSeq(s, MIN_PACKET_SIZE + 1, Len(s))

\* s holds no complete valid frame anywhere
NoValidFrame(s) ==
    ~ \E i \in 0 .. (Len(s) - MIN_PACKET_SIZE) :
        /\ SubSeq(s, i + 1, i + MARKER_LEN) = MARKER
        /\ s[i + 3] \in MxsPacketType
        /\ i + MIN_PACKET_SIZE + s[i + 4] <= Len(s)

\* ------------------------------------------------------------------------
\*  C2  Split-read carry-over.  A valid frame (any type, payload possibly
\*  holding the marker) delivered in any split across reads, with
\*  filter_buffer and drain after each read: every call made before the last
\*  byte has arrived returns no packet and drops no byte of the frame, and
\*  the call that first sees the last byte returns exactly one packet, equal
\*  to the frame.
\* ------------------------------------------------------------------------
C2_SplitCarryOver ==
    /\ IsFrameStream(Stream)
       => /\ wire # <<>>
             => /\ pk_log = <<>>
                /\ skipped_log = <<>>
                /\ buffer = fed
          /\ wire = <<>>
             => /\ pk_log = << [packet_type |-> Stream[3],
                                data |-> FramePayload(Stream)] >>
                /\ skipped_log = <<>>
                /\ buffer = <<>>
    \* the same for a frame that follows text and is followed by text
    /\ \A t1 \in PlainTexts, t2 \in PlainTexts :
          Stream = t1 \o FrameS2 \o t2
          => LET k == Len(fed) - Len(t1) IN
             /\ k < Len(FrameS2)
                => /\ pk_log = <<>>
                   /\ k > 0 => /\ Len(buffer) >= k
                               /\ SubSeq(buffer, Len(buffer) - k + 1, Len(buffer))
                                  = SubSeq(FrameS2, 1, k)
             /\ k >= Len(FrameS2)
                => pk_log = << [packet_type |-> MxsPacketType_Data,
                               data |-> FramePayload(FrameS2)] >>

\* a frame with the marker in its payload has arrived one byte per read
C2_Witness ==
    /\ IsFrameStream(Stream)
    /\ HasMarker(FramePayload(Stream))
    /\ wire = <<>>
    /\ single
    /\ Len(pk_log) = 1

\* ------------------------------------------------------------------------
\*  C5  Skipped-text preservation, as claimed.  For a byte sequence S with
\*  no valid frame, appended one byte at a time with filter_buffer and drain
\*  after each byte, the skipped_data slices concatenated are S without at
\*  most its final MARKER_LEN - 1 bytes.
\* ------------------------------------------------------------------------
C5_HeldBackBelowMarkerLen ==
    (NoValidFrame(Stream) /\ single)
    => \E k \in 0 .. (MARKER_LEN - 1) :
          /\ k <= Len(fed)
          /\ skipped_log = SubSeq(fed, 1, Len(fed) - k)

\* ------------------------------------------------------------------------
\*  C5  Skipped-text preservation, amended.  For a byte sequence S with no
\*  valid frame, appended one byte at a time, the skipped_data slices
\*  concatenated and followed by the bytes still in the buffer are the bytes
\*  of S fed so far, in order; at most MARKER_LEN - 1 bytes are held back
\*  when the bytes fed hold no marker pattern.
\* ------------------------------------------------------------------------
C5_SkippedPreserved ==
    (NoValidFrame(Stream) /\ single)
    => /\ skipped_log \o buffer = fed
       /\ ~ HasMarker(fed) => Len(buffer) <= MARKER_LEN - 1

\* a stream with a marker was fed whole, part printed, a header held back
C5_Witness ==
    /\ NoValidFrame(Stream)
    /\ single
    /\ wire = <<>>
    /\ HasMarker(fed)
    /\ skipped_log # <<>>
    /\ Len(buffer) > MARKER_LEN - 1

\* adjacent Print messages of a message sequence merged into one
RECURSIVE MergePrints(_)
MergePrints(msgs) ==
    IF Len(msgs) <= 1 THEN msgs
    ELSE LET rest == MergePrints(Tail(msgs)) IN
         IF msgs[1].tag = "Print" /\ rest[1].tag = "Print"
         THEN <<ThreadMsg_Print(msgs[1].text \o rest[1].text)>> \o Tail(rest)
         ELSE <<msgs[1]>> \o rest

\* ------------------------------------------------------------------------
\*  C6  Interleaved text and frame.  A worker in filter mode that has
\*  received text T1, the Data frame (1, 2, 3) and text T2 has emitted, after
\*  Started, the text of T1, then Data (1, 2, 3), then the text of T2, and
\*  nothing else.
\* ------------------------------------------------------------------------
C6_InterleavedOrder ==
    \A t1 \in PlainTexts, t2 \in PlainTexts :
        (Stream = t1 \o FrameS2 \o t2 /\ wire = <<>> /\ BetweenIterations)
        => MergePrints(Tail(sent))
           = << ThreadMsg_Print(t1), ThreadMsg_Data(<<1, 2, 3>>),
                ThreadMsg_Print(t2) >>

\* two's complement value of the 16-bit word with low byte lo, high byte hi
SignedWord(lo, hi) == ((lo + 256 * hi + 32768) % 65536) - 32768

\* s is one Data frame with a payload of 6 bytes
IsDataFrame6(s) ==
    /\ IsFrameStream(s)
    /\ s[3] = MxsPacketType_Data
    /\ s[4] = 6

\* ------------------------------------------------------------------------
\*  C8  Single Data frame.  A worker that receives exactly one valid Data
\*  frame with a 6-byte payload emits exactly one Data message, whose fields
\*  are the three little-endian signed 16-bit integers of the payload in
\*  order, no Print and no Error, and its rolling buffer is empty after the
\*  drain; nothing is emitted before the frame is complete.
\* ------------------------------------------------------------------------
C8_SingleDataFrame ==
    (IsDataFrame6(Stream) /\ BetweenIterations)
    => /\ wire # <<>> => sent = <<ThreadMsg_Started>>
       /\ wire = <<>>
          => /\ sent = << ThreadMsg_Started,
                          ThreadMsg_Data(<< SignedWord(Stream[5], Stream[6]),
                                            SignedWord(Stream[7], Stream[8]),
                                            SignedWord(Stream[9], Stream[10]) >>) >>
             /\ buffer = <<>>

\* the frame of scenario S2 arrived in several reads and gave Data (1, 2, 3)
C8_Witness ==
    /\ Stream = FrameS2
    /\ wire = <<>>
    /\ BetweenIterations
    /\ ~ single
    /\ sent = <<ThreadMsg_Started, ThreadMsg_Data(<<1, 2, 3>>)>>

\* ------------------------------------------------------------------------
\*  Claims about one connection (SpecConn, SpecConnFair)
\* ------------------------------------------------------------------------

\* the code points of a text, its string-literal tokens left out
CodePoints(t) == SelectSeq(t, LAMBDA c : c >= 0)

CountTag(msgs, tag) == Cardinality({ i \in 1 .. Len(msgs) : msgs[i].tag = tag })

\* nothing is on its way to the screen: the device is silent, the worker
\* has handled every read, and both channels to the foreground are empty
Quiescent ==
    /\ wire = <<>>
    /\ BetweenIterations
    /\ main_q = <<>>
    /\ data_q = <<>>
    /\ fpc = "run"

\* ------------------------------------------------------------------------
\*  C7  Pure text.  When the device has sent a run of bytes without marker
\*  pattern and stays silent, the foreground has written the entire run,
\*  its last byte included, to the scrolling region, and no Data or Error
\*  message was produced.
\* ------------------------------------------------------------------------
C7_PureTextWritten ==
    (Stream \in PlainTexts /\ line_log = <<>> /\ Quiescent)
    => /\ CodePoints(screen) = Stream
       /\ CountTag(sent, "Data") = 0
       /\ CountTag(sent, "Error") = 0

\* ------------------------------------------------------------------------
\*  C9  Bookends.  In every execution of the worker Started is sent exactly
\*  once, as its first message, and Exiting is sent exactly once, as its
\*  last message, when the worker stops, whatever made it stop.
\* ------------------------------------------------------------------------
C9_Bookends ==
    /\ wpc # "start"
       => /\ CountTag(sent, "Started") = 1
          /\ sent[1] = ThreadMsg_Started
    /\ WorkerEnded
       => /\ CountTag(sent, "Exiting") = 1
          /\ sent[Len(sent)] = ThreadMsg_Exiting
    /\ ~ WorkerEnded => CountTag(sent, "Exiting") = 0

\* ------------------------------------------------------------------------
\*  C10  Cancellation liveness.  Once the foreground loop has returned and
\*  dropped the receiver of the worker's channel, the worker eventually
\*  leaves its loop and terminates, also when the device is silent.
\* ------------------------------------------------------------------------
C10_CancelLiveness == (fpc # "run") ~> WorkerEnded

\* an Error message of the transport: a failed port write or port read
TransportError(m) ==
    m.tag = "Error" /\ m.text \in { <<TxtWriteError>>, <<TxtReadError>> }

TransportErrors(msgs) ==
    Cardinality({ i \in 1 .. Len(msgs) : TransportError(msgs[i]) })

\* ------------------------------------------------------------------------
\*  C11  Transport error path.  On a port write error or a non-timeout port
\*  read error the worker sends exactly one Error message followed by
\*  Exiting and performs no further port read or write; the foreground,
\*  after consuming Error and then Exiting, returns from handle_connection,
\*  and the bootstrap loop starts a new port-discovery/connect cycle
\*  instead of ending the process.  (The worker's sends are those that
\*  reach a live receiver; a send to a dropped receiver is the case of C9.)
\* ------------------------------------------------------------------------
C11_TransportErrorPath ==
    /\ [] /\ wpc = "exit"
             => /\ TransportErrors(sent) = 1
                /\ TransportError(sent[Len(sent)])
          /\ wpc = "done"
             => /\ TransportErrors(sent) = 1
                /\ Len(sent) >= 3
                /\ TransportError(sent[Len(sent) - 1])
                /\ sent[Len(sent)] = ThreadMsg_Exiting
          /\ wpc \in {"start", "poll", "read"} => TransportErrors(sent) = 0
          /\ iter.tag = "Exiting" => fpc \in {"ok", "err"}
          /\ fpc = "ok" => (iter.tag = "Exiting" /\ wpc = "done")
          /\ mainpc \in {"handle_connection", "available_ports"}
          /\ mainpc = "available_ports" => fpc \in {"ok", "err"}
    /\ [][ /\ wpc \in {"exit", "done"}
              => /\ port_out' = port_out
                 /\ fed' = fed /\ wire' = wire /\ buffer' = buffer
                 /\ wpc' \in {"exit", "done", "panicked"}
           /\ (fpc # "run" /\ mainpc = "handle_connection" /\ mainpc' # mainpc)
              => mainpc' = "available_ports" ]_vars

\* a port write failed: Error and Exiting were sent and consumed, the
\* foreground returned Ok(()) and the 'main loop is at its top again
C11_Witness ==
    /\ wpc = "done"
    /\ sent[Len(sent) - 1] = ThreadMsg_Error(<<TxtWriteError>>)
    /\ sent[Len(sent)] = ThreadMsg_Exiting
    /\ iter.tag = "Exiting"
    /\ fpc = "ok"
    /\ mainpc = "available_ports"

\* ------------------------------------------------------------------------
\*  C12  Data length mismatch.  A complete Data frame whose payload length
\*  is not 6 is still emitted by the decoder as a packet; the worker sends
\*  exactly one Error message and no Data message for it, the frame's bytes
\*  are drained in the same iteration so it is never dispatched again, and
\*  later frames in the stream are still decoded.
\* ------------------------------------------------------------------------
C12_LengthMismatch ==
    \A p \in BadPayloads :
        LET bad   == BadDataFrame(p)
            b_pk  == [packet_type |-> MxsPacketType_Data, data |-> p]
            b_msg == ThreadMsg_Error(<<TxtConvertError>>)
            g_pk  == [packet_type |-> MxsPacketType_Data,
                      data |-> FramePayload(FrameS2)]
            g_msg == ThreadMsg_Data(<<1, 2, 3>>)
        IN
        /\ (~ direct /\ Stream = bad \o FrameS2 /\ BetweenIterations)
           => /\ Len(fed) < Len(bad)
                 => /\ sent = <<ThreadMsg_Started>>
                    /\ pk_log = <<>>
                    /\ buffer = fed
              /\ (Len(fed) >= Len(bad) /\ wire # <<>>)
                 => /\ sent = <<ThreadMsg_Started, b_msg>>
                    /\ pk_log = <<b_pk>>
                    /\ buffer = SubSeq(fed, Len(bad) + 1, Len(fed))
              /\ wire = <<>>
                 => /\ sent = <<ThreadMsg_Started, b_msg, g_msg>>
                    /\ pk_log = <<b_pk, g_pk>>
                    /\ buffer = <<>>
        /\ (~ direct /\ Stream = FrameS2 \o bad /\ BetweenIterations)
           => /\ Len(fed) < Len(FrameS2)
                 => /\ sent = <<ThreadMsg_Started>>
                    /\ pk_log = <<>>
              /\ (Len(fed) >= Len(FrameS2) /\ wire # <<>>)
                 => /\ sent = <<ThreadMsg_Started, g_msg>>
                    /\ pk_log = <<g_pk>>
                    /\ buffer = SubSeq(fed, Len(FrameS2) + 1, Len(fed))
              /\ wire = <<>>
                 => /\ sent = <<ThreadMsg_Started, g_msg, b_msg>>
                    /\ pk_log = <<g_pk, b_pk>>
                    /\ buffer = <<>>

\* a Data frame of 7 payload bytes and the frame of S2 have arrived, in
\* more than one read
C12_Witness ==
    /\ ~ direct
    /\ Len(fed) > 0 /\ ~ single
    /\ Stream = BadDataFrame(<<1, 0, 2, 0, 3, 0, 4>>) \o FrameS2
    /\ wire = <<>>
    /\ BetweenIterations
    /\ Len(skipped_log) = 0
    /\ sent = << ThreadMsg_Started, ThreadMsg_Error(<<TxtConvertError>>),
                 ThreadMsg_Data(<<1, 2, 3>>) >>

\* the texts of the Print messages of a message sequence, concatenated
RECURSIVE PrintedText(_)
PrintedText(msgs) ==
    IF msgs = <<>> THEN <<>>
    ELSE (IF Head(msgs).tag = "Print" THEN Head(msgs).text ELSE <<>>)
         \o PrintedText(Tail(msgs))

\* ------------------------------------------------------------------------
\*  C13  Direct mode.  When the direct-mode flag is set, every successful
\*  read is emitted in the same iteration as one Print message carrying all
\*  bytes in the rolling buffer, the rolling buffer is empty at the end of
\*  every iteration, the decoder is never invoked, and the worker never
\*  sends a Data message or a payload-conversion Error, even if the bytes
\*  contain valid frames.
\* ------------------------------------------------------------------------
C13_DirectMode ==
    /\ [] (direct
           => /\ pk_log = <<>>
              /\ skipped_log = <<>>
              /\ CountTag(sent, "Data") = 0
              /\ \A i \in 1 .. Len(sent) :
                    sent[i] # ThreadMsg_Error(<<TxtConvertError>>)
              /\ wpc # "panicked"
                 => /\ buffer = <<>>
                    /\ PrintedText(sent) = from_utf8_lossy(fed))
    /\ [][ (direct /\ wpc = "read" /\ wpc' = "poll")
              => LET chunk == SubSeq(fed', Len(fed) + 1, Len(fed'))
                     msg   == ThreadMsg_Print(from_utf8_lossy(chunk))
                 IN  /\ sent' = sent \/ sent' = Append(sent, msg)
                     /\ chunk # <<>> => sent' = Append(sent, msg) ]_vars

\* direct mode: the frame of S2 has arrived in two reads or more and went
\* out as text, the marker bytes as U+FFFD
C13_Witness ==
    /\ direct
    /\ Stream = FrameS2
    /\ wire = <<>>
    /\ BetweenIterations
    /\ CountTag(sent, "Print") >= 2
    /\ PrintedText(sent)
       = <<ReplacementChar, 85, 4, 6, 1, 0, 2, 0, 3, 0>>

\* ------------------------------------------------------------------------
\*  C14  Outgoing lines.  Every line committed by the user is written to
\*  the port exactly once, and lines are written in the order they were
\*  committed: what the port has received is, write by write, the lines
\*  sent on the text channel, from the first one on.
\* ------------------------------------------------------------------------
C14_OutgoingLines ==
    /\ Len(port_out) <= Len(line_log)
    /\ \A i \in 1 .. Len(port_out) : port_out[i] = line_log[i]

\* ------------------------------------------------------------------------
\*  Claims about the line editor (SpecKeys)
\* ------------------------------------------------------------------------

\* this step is an iteration of 'main_rx that goes on to the next one and
\* in which read_stdin_input read exactly the key press key
OneKey(key) ==
    /\ typed' = Append(typed, key)
    /\ fpc' = "run"

\* std_input after the commit check of the iteration
AfterCommit(line) == IF EndsWithNewLine(line) THEN <<>> ELSE line

\* number of Enter and Ctrl-J presses among the keys read so far
EnterPresses ==
    Cardinality({ i \in 1 .. Len(typed) :
                    typed[i] \in {KeyEnter, KeyCtrl(Char_j)} })

NewLines(line) == Cardinality({ i \in 1 .. Len(line) : line[i] = NewLine })

\* ------------------------------------------------------------------------
\*  C15  History push rule.  On Enter (or Ctrl-J) the current buffer is
\*  pushed to the front of history if and only if it is non-empty and
\*  differs from the most recent history entry; consequently, after any
\*  sequence of key events, history contains no empty line and no two
\*  adjacent equal entries.
\* ------------------------------------------------------------------------
C15_HistoryPushRule ==
    /\ [] /\ \A i \in 1 .. Len(HISTORY) : HISTORY[i] # <<>>
          /\ \A i \in 1 .. Len(HISTORY) - 1 : HISTORY[i] # HISTORY[i + 1]
    /\ [][ (OneKey(KeyEnter) \/ OneKey(KeyCtrl(Char_j)))
              => HISTORY' = IF std_input # <<>>
                               /\ (HISTORY = <<>> \/ Head(HISTORY) # std_input)
                            THEN <<std_input>> \o HISTORY
                            ELSE HISTORY ]_vars

\* ------------------------------------------------------------------------
\*  C16  Up key.  If history has an entry at index scroll, Up replaces the
\*  buffer with history[scroll] and then increments scroll by 1; so the
\*  first Up after a commit (scroll = 0) puts the most recently committed
\*  line in the buffer.
\* ------------------------------------------------------------------------
C16_UpKey ==
    [][ (OneKey(KeyUp) /\ HistoryHas(HISTORY, SCROLL_POS))
          => /\ std_input' = AfterCommit(HistoryGet(HISTORY, SCROLL_POS))
             /\ SCROLL_POS' = SCROLL_POS + 1 ]_vars

\* ------------------------------------------------------------------------
\*  C17  Down key.  If scroll <= 1, Down clears the buffer and sets
\*  scroll = 0; otherwise Down replaces the buffer with history[scroll - 2]
\*  and decrements scroll by 1.
\* ------------------------------------------------------------------------
C17_DownKey ==
    [][ OneKey(KeyDown)
          => IF SCROLL_POS <= 1
             THEN std_input' = <<>> /\ SCROLL_POS' = 0
             ELSE /\ HistoryHas(HISTORY, SCROLL_POS - 2)
                  /\ std_input' = AfterCommit(HistoryGet(HISTORY, SCROLL_POS - 2))
                  /\ SCROLL_POS' = SCROLL_POS - 1 ]_vars

\* ------------------------------------------------------------------------
\*  C18  Ctrl-U.  A Ctrl-U key press clears the input buffer and resets the
\*  scroll cursor to 0, whatever the buffer and scroll cursor held before;
\*  it never appends a character to the buffer.
\* ------------------------------------------------------------------------
C18_CtrlU ==
    [][ OneKey(KeyCtrl(Char_u))
          => std_input' = <<>> /\ SCROLL_POS' = 0 ]_vars

\* ------------------------------------------------------------------------
\*  C19  Commit discipline.  For any sequence of key events, including
\*  several events drained in one call of read_stdin_input, the input
\*  buffer never contains a newline except as its final character, every
\*  Enter press results in exactly one line sent on the text channel, and
\*  every line sent contains exactly one newline, at its end.
\* ------------------------------------------------------------------------
C19_CommitDiscipline ==
    /\ \A i \in 1 .. Len(std_input) - 1 : std_input[i] # NewLine
    /\ fpc = "run" => Len(line_log) = EnterPresses
    /\ \A i \in 1 .. Len(line_log) :
          EndsWithNewLine(line_log[i]) /\ NewLines(line_log[i]) = 1

\* ------------------------------------------------------------------------
\*  C20  Bar repaint, as claimed.  In every iteration of the foreground
\*  loop in which bytes are written to stdout, the input bar is repainted
\*  later in that same iteration, for every kind of worker message handled,
\*  Error and Exiting included.
\* ------------------------------------------------------------------------
C20_BarRepaintAlways == iter.wrote => iter.painted

\* ------------------------------------------------------------------------
\*  C20  Bar repaint, amended.  In every iteration of the foreground loop
\*  that writes bytes to stdout and goes on to the next iteration, the
\*  input bar is repainted later in that same iteration.  The iteration
\*  that handles Exiting writes its notice and leaves the loop without a
\*  repaint, and the iteration that handles Error writes no byte to stdout
\*  and does not repaint the bar either.
\* ------------------------------------------------------------------------
C20_BarRepaint ==
    /\ (iter.wrote /\ fpc = "run") => iter.painted
    /\ iter.tag = "Exiting" => ~ iter.painted
    /\ iter.tag = "Error" => (~ iter.wrote /\ ~ iter.painted)

\* the Exiting notice has been written and the loop has ended
C20_Witness ==
    /\ iter.tag = "Exiting"
    /\ iter.wrote
    /\ fpc = "ok"
    /\ screen # <<>>
    /\ screen[Len(screen)] = TxtThreadExiting

\* ------------------------------------------------------------------------
\*  Claims about the decoder's offsets (SpecDec)
\* ------------------------------------------------------------------------

\* p lies in s at an offset from lo on and ends at or before offset hi
LiesWithin(p, s, lo, hi) ==
    \E at \in lo .. hi :
        /\ at + Len(p) <= hi
        /\ SubSeq(s, at + 1, at + Len(p)) = p

\* ------------------------------------------------------------------------
\*  C27  Decoder bounds safety.  For every byte buffer, the empty buffer
\*  and buffers of 1 to 3 bytes included, filter_buffer returns
\*  len(skipped_data) <= trim_index <= len(buffer), skipped_data is the
\*  head of the buffer, every packet payload lies inside the buffer after
\*  the skipped bytes and a header and before trim_index, and the drain of
\*  trim_index bytes leaves the bytes of the buffer from trim_index on, so
\*  that no byte of skipped_data stays in the buffer.
\* ------------------------------------------------------------------------
C27_BoundsSafety ==
    /\ dstage \in {"filtered", "drained", "refiltered"}
       => /\ Len(r1.skipped_data) <= r1.trim_index
          /\ r1.trim_index <= Len(OriginalBuffer)
          /\ r1.skipped_data
               = SubSeq(OriginalBuffer, 1, Len(r1.skipped_data))
          /\ \A i \in 1 .. Len(r1.packets) :
                LiesWithin(r1.packets[i].data, OriginalBuffer,
                           Len(r1.skipped_data) + MIN_PACKET_SIZE,
                           r1.trim_index)
    /\ dstage \in {"drained", "refiltered"}
       => /\ Len(dbuf) = Len(OriginalBuffer) - r1.trim_index
          /\ dbuf = SubSeq(OriginalBuffer, r1.trim_index + 1,
                           Len(OriginalBuffer))
    /\ dstage = "refiltered"
       => /\ Len(r2.skipped_data) <= r2.trim_index
          /\ r2.trim_index <= Len(dbuf)

\* a buffer of 1 to 3 bytes without a packet has been filtered and drained
\* and part of it was surfaced as skipped_data
C27_Witness ==
    /\ input.kind = "raw"
    /\ Len(input.bytes) \in 1 .. 3
    /\ dstage = "drained"
    /\ r1.packets = <<>>
    /\ r1.skipped_data # <<>>
    /\ Len(dbuf) < Len(input.bytes)

\* ------------------------------------------------------------------------
\*  Claims about what the worker keeps and drops (SpecFeed)
\* ------------------------------------------------------------------------

\* the bytes on the wire of the frames of a packet list: header and payload
RECURSIVE FrameBytes(_)
FrameBytes(packets) ==
    IF packets = <<>> THEN 0
    ELSE MIN_PACKET_SIZE + Len(Head(packets).data) + FrameBytes(Tail(packets))

\* ------------------------------------------------------------------------
\*  C25  No silent byte loss.  In filter mode, the bytes removed from the
\*  rolling buffer by the drain step of an iteration are as many as the
\*  bytes of the frames emitted as packets in that iteration plus the bytes
\*  of the skipped_data sent as Print in that iteration: no byte is drained
\*  that is neither part of an emitted frame nor printed, text between two
\*  frames of one buffer and a false marker after an emitted frame included.
\* ------------------------------------------------------------------------
C25_NoSilentLoss ==
    [][ (wpc = "read" /\ wpc' = "poll" /\ ~ direct)
          => (Len(buffer) + (Len(fed') - Len(fed))) - Len(buffer')
             = (Len(skipped_log') - Len(skipped_log))
               + (FrameBytes(pk_log') - FrameBytes(pk_log)) ]_vars

\* b is the beginning of one frame that is not complete yet: the marker at
\* index 0, then a valid type byte if there, and fewer bytes than the
\* length byte, if there, asks for
IncompleteFramePrefix(b) ==
    /\ Len(b) >= MARKER_LEN
    /\ SubSeq(b, 1, MARKER_LEN) = MARKER
    /\ Len(b) > MARKER_LEN => b[MARKER_LEN + 1] \in MxsPacketType
    /\ Len(b) >= MIN_PACKET_SIZE => Len(b) < MIN_PACKET_SIZE + b[MIN_PACKET_SIZE]

\* ------------------------------------------------------------------------
\*  C26  Retained-tail shape.  After the drain step of every filter-mode
\*  worker iteration the rolling buffer holds either fewer than MARKER_LEN
\*  bytes or the prefix of a single incomplete frame that starts at index 0
\*  with the marker; it never holds a complete valid frame and its length
\*  stays below MAX_PACKET_SIZE, for any input stream and any split into
\*  reads.
\* ------------------------------------------------------------------------
C26_RetainedTail ==
    (~ direct /\ wpc # "panicked")
    => /\ Len(buffer) < MARKER_LEN \/ IncompleteFramePrefix(buffer)
       /\ NoValidFrame(buffer)
       /\ Len(buffer) < MAX_PACKET_SIZE

\* ------------------------------------------------------------------------
\*  Claims about the order of dispatch (SpecConn)
\* ------------------------------------------------------------------------

\* the packets of the three frames of BackToBack and their messages
BackToBackPackets ==
    << [packet_type |-> MxsPacketType_Data, data |-> FramePayload(FrameS2)],
       [packet_type |-> MxsPacketType_Data, data |-> <<>>],
       [packet_type |-> MxsPacketType_End, data |-> <<>>] >>

BackToBackMsgs ==
    << ThreadMsg_Data(<<1, 2, 3>>),
       ThreadMsg_Error(<<TxtConvertError>>),
       ThreadMsg_Print(<<TxtReceivedEnd>>) >>

\* m is a result the data thread sends back, not a message of the worker
IsDataResult(m) ==
    m.tag = "Print" /\ m.text # <<>> /\ Head(m.text) = TxtDataProcessed

\* the messages of the worker among those of a channel, in channel order
WorkerPart(q) == SelectSeq(q, LAMBDA m : ~ IsDataResult(m))

\* ------------------------------------------------------------------------
\*  C24  Wire-order dispatch.  When one buffer holds the N = 3 complete
\*  valid frames of BackToBack, filter_buffer returns 3 packets in wire
\*  order and the worker sends exactly one message per frame (Data, Error,
\*  Print notice) in that same order; the same packets and messages result
\*  from any other split of the frames into reads.  The foreground consumes
\*  the worker's messages in the order sent: each of its iterations takes
\*  the message at the head of the channel, and the worker's messages still
\*  in the channel are always the last ones sent.
\* ------------------------------------------------------------------------
C24_WireOrder ==
    /\ [][ (~ direct /\ fed = <<>> /\ fed' = BackToBack /\ wpc' # "panicked")
             => /\ pk_log' = BackToBackPackets
                /\ sent' = sent \o BackToBackMsgs
                /\ main_q' = main_q \o BackToBackMsgs
                /\ buffer' = <<>> ]_vars
    /\ [] ( (~ direct /\ Stream = BackToBack /\ wire = <<>>
             /\ ReceiverAlive /\ BetweenIterations)
            => /\ pk_log = BackToBackPackets
               /\ Len(sent) >= 4
               /\ SubSeq(sent, 1, 4) = <<ThreadMsg_Started>> \o BackToBackMsgs )
    /\ [][ main_q' # main_q
             => \/ main_q # <<>> /\ main_q' = Tail(main_q)
                \/ /\ Len(main_q') > Len(main_q)
                   /\ SubSeq(main_q', 1, Len(main_q)) = main_q ]_vars
    /\ [] ( ReceiverAlive
            => \E k \in 0 .. Len(sent) :
                  WorkerPart(main_q) = SubSeq(sent, k + 1, Len(sent)) )

\* the three frames arrived in one read and the foreground has taken the
\* three messages, the End notice last, with the channel empty again
C24_Witness ==
    /\ ~ direct
    /\ Stream = BackToBack
    /\ wire = <<>>
    /\ ~ single
    /\ pk_log = BackToBackPackets
    /\ Len(sent) = 4
    /\ main_q = <<>>
    /\ iter.tag = "Print"
    /\ screen # <<>>
    /\ screen[Len(screen)] = TxtReceivedEnd
    /\ fpc = "run"

\* ------------------------------------------------------------------------
\*  Claims about the end of a connection (SpecConn, SpecConnFair)
\* ------------------------------------------------------------------------

\* ------------------------------------------------------------------------
\*  C28  No message lost at shutdown.  When handle_connection has returned
\*  after the Exiting message ended its loop, no message is left in the
\*  controller's inbound channel: every message of the worker and every
\*  result of the data thread was consumed by the foreground loop before.
\* ------------------------------------------------------------------------
C28_NoMessageLost == fpc = "ok" => main_q = <<>>

\* ------------------------------------------------------------------------
\*  C29  Data-thread termination.  Once handle_connection has returned, and
\*  with it the sender of the data channel is dropped, the data thread it
\*  spawned eventually terminates, so that no data thread of a connection
\*  that is over stays alive.
\* ------------------------------------------------------------------------
C29_DataThreadEnds == (fpc # "run") ~> (dtpc # "run")

\* ------------------------------------------------------------------------
\*  Claims about the start of the program (SpecBoot)
\* ------------------------------------------------------------------------

\* ------------------------------------------------------------------------
\*  C21  Open retries.  One call of connect_to_port makes at most 5
\*  attempts to open the port, with a sleep of 500 ms between two attempts,
\*  and returns the failure to the outer loop after the 5th consecutive
\*  failed attempt; a successful attempt returns the port at once, without
\*  a sleep after it.
\* ------------------------------------------------------------------------
C21_OpenRetries ==
    /\ opens <= ATTEMPTS
    /\ mainpc = "connect_to_port" => sleeps = opens
    /\ (mainpc \in {"available_ports", "find_port"} /\ opens > 0)
       => opens = ATTEMPTS
    /\ mainpc = "handle_connection"
       => /\ input_port = port_name
          /\ sleeps = opens - 1

C23_Teardown ==
    ~ Running
    => /\ term.region = "full"
       /\ term.cursor = "shown"
       /\ term.icanon = term.before.icanon
       /\ term.echo = term.before.echo
       /\ exit_code = 0

====
